---- MODULE Spec2Model ----
(***************************************************************************)
(* A model of the Account facade of starknet.js (src/account/default.ts): *)
(* execute, getNonce, signMessage, hashMessage, verifyMessageHash and      *)
(* verifyMessage, run as overlapping asynchronous calls against one        *)
(* provider (callContract / invokeFunction) and one signer.                *)
(*                                                                         *)
(* A call occupies a slot c \in Calls.  Each action is one synchronous     *)
(* stretch of a method: from its entry, or from the settling of the        *)
(* promise it awaits, up to its next await or its return/throw.            *)
(***************************************************************************)
EXTENDS Integers, Sequences, FiniteSets, TLC

\* The slots in which calls on the one Account object run; two calls overlap
\* when both slots are busy.
Calls == {1, 2}

\* The account contract's nonce stops advancing here.
MaxNonce == 1

(***************************************************************************)
(* BigNumberish values.  A JavaScript number is [k |-> "num", n |-> value];*)
(* a string is its digit sequence, [k |-> "hex"] when it carries the 0x    *)
(* prefix and [k |-> "dec"] when it does not; [k |-> "bad"] is a string    *)
(* that is no number; [k |-> "none"] is undefined.                         *)
(***************************************************************************)
Num(n) == [k |-> "num", n |-> n, d |-> <<>>]
Hex(ds) == [k |-> "hex", n |-> 0, d |-> ds]
Dec(ds) == [k |-> "dec", n |-> 0, d |-> ds]
NotANumber == [k |-> "bad", n |-> 0, d |-> <<>>]
Undefined == [k |-> "none", n |-> 0, d |-> <<>>]

\* The digits of n in the given base, most significant first ("0" for zero).
RECURSIVE Digits(_, _)
Digits(n, base) ==
  IF n < base THEN <<n>> ELSE Append(Digits(n \div base, base), n % base)

\* The number a digit string denotes in the given base; -1 when a digit is
\* not one of that base or the string is empty.
RECURSIVE ParseDigits(_, _)
ParseDigits(ds, base) ==
  IF ds = <<>> THEN -1
  ELSE LET last == ds[Len(ds)]
           init == SubSeq(ds, 1, Len(ds) - 1)
       IN  IF last >= base THEN -1
           ELSE IF init = <<>> THEN last
           ELSE LET hi == ParseDigits(init, base)
                IN  IF hi < 0 THEN -1 ELSE hi * base + last

\* utils/number toBN: a BN from a number, a 0x-prefixed hex string or a
\* decimal string; -1 stands for the exception it throws on anything else.
toBN(x) ==
  CASE x.k = "num" -> x.n
    [] x.k = "hex" -> ParseDigits(x.d, 16)
    [] x.k = "dec" -> ParseDigits(x.d, 10)
    [] OTHER -> -1

\* BN.toString(): the decimal string of a BN.
BNToString(bn) == Dec(Digits(bn, 10))

\* utils/number toHex: the 0x-prefixed hex string of a BN.
toHex(bn) == Hex(Digits(bn, 16))

\* Whether toBN accepts every element.
AllNumbers(xs) == \A i \in DOMAIN xs : toBN(xs[i]) >= 0

\* utils/number bigNumberishArrayToDecimalStringArray: each element as the
\* decimal string of its value.
bigNumberishArrayToDecimalStringArray(xs) ==
  [i \in DOMAIN xs |-> BNToString(toBN(xs[i]))]

\* utils/stark getSelectorFromName: a hash of the entrypoint name, here one
\* distinct hex string per name.
getSelectorFromName(name) ==
  CASE name = "transfer" -> Hex(<<8, 3, 10>>)
    [] name = "mint" -> Hex(<<2, 15, 0>>)
    [] OTHER -> Hex(<<1, 1, 1>>)

\* utils/stark compileCalldata for {hash, signature}: the scalar as itself,
\* the array as its length followed by its elements.
compileCalldata(hash, signature) ==
  <<hash, BNToString(Len(signature))>> \o signature

\* utils/typedData getMessageHash: a hash of the typed data bound to the
\* account address, here one hex string per (message, account) pair.
getMessageHash(typedData, account) ==
  Hex(<<typedData.tag>> \o account.d)

(***************************************************************************)
(* The arguments the callers pass.                                         *)
(***************************************************************************)
Addresses == {Hex(<<10, 12>>)}
KeyPairs == {"key1"}

\* ExecuteInvocation values; hasCalldata = FALSE is an invocation whose
\* calldata property is omitted.
Transfer ==
  [contractAddress |-> Hex(<<1>>), entrypoint |-> "transfer",
   hasCalldata |-> TRUE, calldata |-> <<Hex(<<2>>), Num(100)>>]
MintNoCalldata ==
  [contractAddress |-> Hex(<<3>>), entrypoint |-> "mint",
   hasCalldata |-> FALSE, calldata |-> <<>>]
Malformed ==
  [contractAddress |-> Hex(<<3>>), entrypoint |-> "transfer",
   hasCalldata |-> TRUE, calldata |-> <<Dec(<<7>>), NotANumber>>]
Invocations == {Transfer, MintNoCalldata, Malformed}

\* The first argument of execute: one invocation, or an array of them.
Bare(inv) == [isArray |-> FALSE, items |-> <<inv>>]
Array(invs) == [isArray |-> TRUE, items |-> invs]
TransactionsArgs ==
  {Bare(inv) : inv \in Invocations}
    \cup {Array(<<inv>>) : inv \in Invocations}
    \cup {Array(<<>>), Array(<<Transfer, MintNoCalldata>>),
          Array(<<Transfer, Transfer, Malformed>>)}

AbisArgs == {<<>>, <<"erc20">>}

\* InvocationsDetails: {nonce?}; Undefined is the absent nonce.
Details(nonce) == [nonce |-> nonce]
DetailsArgs ==
  {Details(n) : n \in {Undefined, Num(0), Num(5), Hex(<<1>>), NotANumber}}

\* The execute calls made: every transactions argument with every details
\* argument, the abis given with the arrays execute rejects and with one
\* bare invocation.
ExecuteArgs ==
  {x \in TransactionsArgs \X AbisArgs \X DetailsArgs :
     x[2] = <<>> \/ x[1] = Bare(Transfer)
       \/ (x[1].isArray /\ Len(x[1].items) # 1)}

\* TypedData messages; one of them is malformed and cannot be hashed.
TypedDatas ==
  {[tag |-> 4, valid |-> TRUE], [tag |-> 9, valid |-> TRUE],
   [tag |-> 0, valid |-> FALSE]}

\* Hashes and signatures handed to the verify operations.
HashArgs == {Hex(<<10, 11>>), Num(42), NotANumber}
SignatureArgs ==
  {<<Hex(<<2>>), Num(100)>>, <<Dec(<<7>>)>>, <<Num(1), NotANumber>>}

\* The errors the provider's calls fail with.
CallErrors == {"NetworkError", "ContractReadError"}

NoInvocation ==
  [contractAddress |-> Undefined, entrypoint |-> "",
   hasCalldata |-> FALSE, calldata |-> <<>>]
NoTypedData == [tag |-> 0, valid |-> FALSE]
NoArgs ==
  [transactions |-> Array(<<>>), abis |-> <<>>, details |-> Details(Undefined),
   typedData |-> NoTypedData, hash |-> Undefined, signature |-> <<>>]
NoResult == [status |-> "none", error |-> "", bool |-> FALSE, val |-> Undefined]

(***************************************************************************)
(* The gateway functions of index.ts: their arguments, the responses and   *)
(* errors of the HTTP requests, and the promise each returns.              *)
(***************************************************************************)
GatewayCalls == {1, 2}

BlockIds == {0, 12}
TxIds == {7}
StorageKeys == {3}
ContractAddresses == {"0x3e8"}
Bodies == {"invoke", "deploy"}

NoGatewayCall ==
  [fn |-> "none", contractAddress |-> "", key |-> 0, blockId |-> 0,
   txId |-> 0, body |-> ""]

\* What axios resolves with, and what it rejects with.
Responses ==
  {[status |-> 200, data |-> "{}"], [status |-> 200, data |-> "[1]"]}
HttpErrors == {"Network Error", "Request failed with status code 500"}
NoResponse ==
  [arrived |-> FALSE, ok |-> FALSE, status |-> 0, data |-> "", error |-> ""]

NoValue == "undefined"
NoPromise == [state |-> "none", value |-> NoValue, reason |-> NoValue]

VARIABLES
  address,          \* Account.address
  signer,           \* Account.signer: the key pair the Signer was built from
  chainNonce,       \* the nonce the account contract holds
  nonceReuse,       \* two in-flight submissions were bound to one read nonce
  pc,               \* per call: where it is suspended, or how it settled
  op,               \* per call: the method called
  args,             \* per call: its arguments
  nonceBn,          \* execute's local nonceBn (-1 before it is assigned)
  calldataDecimal,  \* execute's local calldataDecimal
  signature,        \* execute's local signature (empty before it is assigned)
  reads,            \* per call: the callContract requests it issued
  signed,           \* per call: the signer requests it issued
  submits,          \* per call: the invokeFunction requests it issued
  replies,          \* per call: what its callContract requests settled with
  receipts,         \* per call: what its invokeFunction requests settled with
  events,           \* per call: its external operations, in order
  result,           \* per call: what its promise settled with
  gw,               \* per gateway call: the function of index.ts and arguments
  http,             \* per gateway call: the HTTP requests axios was asked for
  response,         \* per gateway call: what its HTTP request settled with
  promise,          \* per gateway call: the promise the function returned
  settlements       \* per gateway call: calls of the promise's resolve/reject

account == <<address, signer>>
chain == <<chainNonce, nonceReuse>>
locals == <<nonceBn, calldataDecimal, signature>>
gateway == <<gw, http, response, promise, settlements>>
calls ==
  <<pc, op, args, nonceBn, calldataDecimal, signature, reads, replies,
    receipts, signed, submits, events, result>>
vars ==
  <<address, signer, chainNonce, nonceReuse, pc, op, args, nonceBn,
    calldataDecimal, signature, reads, replies, receipts, signed, submits,
    events, result, gw, http, response, promise, settlements>>

\* new Account(provider, address, keyPair); no call has been made.
Init ==
  /\ address \in Addresses
  /\ signer \in KeyPairs
  /\ chainNonce = 0
  /\ nonceReuse = FALSE
  /\ pc = [c \in Calls |-> "idle"]
  /\ op = [c \in Calls |-> "none"]
  /\ args = [c \in Calls |-> NoArgs]
  /\ nonceBn = [c \in Calls |-> -1]
  /\ calldataDecimal = [c \in Calls |-> <<>>]
  /\ signature = [c \in Calls |-> <<>>]
  /\ reads = [c \in Calls |-> <<>>]
  /\ replies = [c \in Calls |-> <<>>]
  /\ receipts = [c \in Calls |-> <<>>]
  /\ signed = [c \in Calls |-> <<>>]
  /\ submits = [c \in Calls |-> <<>>]
  /\ events = [c \in Calls |-> <<>>]
  /\ result = [c \in Calls |-> NoResult]
  /\ gw = [g \in GatewayCalls |-> NoGatewayCall]
  /\ http = [g \in GatewayCalls |-> <<>>]
  /\ response = [g \in GatewayCalls |-> NoResponse]
  /\ promise = [g \in GatewayCalls |-> NoPromise]
  /\ settlements = [g \in GatewayCalls |-> 0]

(***************************************************************************)
(* The pieces of Account.execute, getNonce and verifyMessageHash.          *)
(***************************************************************************)
Set(f, c, v) == [f EXCEPT ![c] = v]
Pending == [NoResult EXCEPT !.status = "pending"]
Rejected(e) == [NoResult EXCEPT !.status = "rejected", !.error = e]
ResolvedBool(b) == [NoResult EXCEPT !.status = "resolved", !.bool = b]
ResolvedVal(v) == [NoResult EXCEPT !.status = "resolved", !.val = v]

\* A guard that lets a two-element array through.
RejectsLongBatch(transactions) ==
  transactions.isArray /\ Len(transactions.items) \notin {1, 2}

\* A guard that rejects every array, the one-element array included.
RejectsEveryArray(transactions) == transactions.isArray

\* The guard of execute: an array that does not hold exactly one invocation.
RejectsBatch(transactions) ==
  transactions.isArray /\ Len(transactions.items) # 1

\* A destructuring that leaves an omitted calldata undefined.
InvocationNoDefault(transactions) == transactions.items[1]

\* The destructuring of the one invocation, calldata defaulting to [].
Invocation(transactions) ==
  LET inv == transactions.items[1]
  IN  [inv EXCEPT !.hasCalldata = TRUE,
                  !.calldata = IF inv.hasCalldata THEN inv.calldata ELSE <<>>]

\* nonce || ...: a nonce of zero counts as none.
HasNonceTruthy(details) == details.nonce.k # "none" /\ toBN(details.nonce) # 0

\* The details' nonce is never looked at.
HasNonceNever(details) == FALSE

\* nonce ?? ...: whether the details carry a nonce.
HasNonce(details) == details.nonce.k # "none"

\* The request getNonce hands to callContract.
GetNonceRequest ==
  [contractAddress |-> address, entrypoint |-> "get_nonce", calldata |-> <<>>]

\* What getNonce returns for the call's result.
GetNonceValue(res) == toHex(toBN(res[1]))

\* The arguments execute hands to signer.signTransaction.
SignTransactionRequest(inv, cd, bn, abis) ==
  [transactions |->
     <<[contractAddress |-> inv.contractAddress, calldata |-> cd,
        entrypoint |-> inv.entrypoint]>>,
   walletAddress |-> address, nonce |-> bn, abis |-> abis]

\* A calldata with the length after the elements it counts.
ExecuteCalldataLengthLast(inv, cd, bn) ==
  <<inv.contractAddress, getSelectorFromName(inv.entrypoint)>>
    \o cd \o <<BNToString(Len(cd)), BNToString(bn)>>

\* A calldata that ends with the account's nonce of the moment.
ExecuteCalldataCurrentNonce(inv, cd, bn) ==
  <<inv.contractAddress, getSelectorFromName(inv.entrypoint),
    BNToString(Len(cd))>> \o cd \o <<BNToString(chainNonce)>>

\* A calldata built from the invocation's calldata as it was given.
ExecuteCalldataRaw(inv, cd, bn) ==
  <<inv.contractAddress, getSelectorFromName(inv.entrypoint),
    BNToString(Len(cd))>> \o inv.calldata \o <<BNToString(bn)>>

\* The calldata of the outer execute invocation.
ExecuteCalldata(inv, cd, bn) ==
  <<inv.contractAddress, getSelectorFromName(inv.entrypoint),
    BNToString(Len(cd))>> \o cd \o <<BNToString(bn)>>

\* The request execute hands to invokeFunction.
InvokeFunctionRequest(inv, cd, bn, sig) ==
  [contractAddress |-> address, entrypoint |-> "execute",
   calldata |-> ExecuteCalldata(inv, cd, bn), signature |-> sig]

\* A request whose calldata lacks the signature's length.
IsValidSignatureRequestNoLength(hash, sig) ==
  [contractAddress |-> address, entrypoint |-> "is_valid_signature",
   calldata |->
     <<BNToString(toBN(hash))>>
       \o [i \in DOMAIN sig |-> BNToString(toBN(sig[i]))]]

\* The request verifyMessageHash hands to callContract.
IsValidSignatureRequest(hash, sig) ==
  [contractAddress |-> address, entrypoint |-> "is_valid_signature",
   calldata |->
     compileCalldata(BNToString(toBN(hash)),
                     [i \in DOMAIN sig |-> BNToString(toBN(sig[i]))])]

\* The signature the Signer returns: the key pair's signature over what it
\* was asked to sign.
Sign(request) == <<[signedBy |-> signer, over |-> request]>>

\* What a request to the provider settles with: a result, or an error.
Reply(res) == [ok |-> TRUE, error |-> "", result |-> res]
Failure(e) == [ok |-> FALSE, error |-> e, result |-> <<>>]

\* The result of the account contract's get_nonce entrypoint.
GetNonceResult == <<toHex(chainNonce)>>

\* The account contract consumes a submitted nonce that is its current one.
Consume(submitted) ==
  IF toBN(submitted) = chainNonce /\ chainNonce < MaxNonce
  THEN chainNonce + 1 ELSE chainNonce

(***************************************************************************)
(* Account.execute                                                         *)
(***************************************************************************)
\* The signing is not awaited: invokeFunction is called while it runs.
SignStepNoAwait(c, inv, abis, nonce, evs) ==
  LET bn == toBN(nonce)
      cd == bigNumberishArrayToDecimalStringArray(inv.calldata)
  IN  IF bn < 0 \/ ~inv.hasCalldata \/ ~AllNumbers(inv.calldata)
      THEN /\ pc' = Set(pc, c, "rejected")
           /\ result' = Set(result, c, Rejected("EncodingError"))
           /\ events' = Set(events, c, evs)
           /\ UNCHANGED <<nonceBn, calldataDecimal, signed>>
      ELSE /\ pc' = Set(pc, c, "signTransaction")
           /\ result' = Set(result, c, Pending)
           /\ nonceBn' = Set(nonceBn, c, bn)
           /\ calldataDecimal' = Set(calldataDecimal, c, cd)
           /\ signed' =
                Set(signed, c,
                    Append(signed[c],
                           SignTransactionRequest(inv, cd, bn, abis)))
           /\ events' =
                Set(events, c,
                    evs \o <<"compile", "signTransaction", "invokeFunction">>)

\* The calldata is handed to the signer as it was given, unconverted.
SignStepUnconverted(c, inv, abis, nonce, evs) ==
  LET bn == toBN(nonce)
  IN  IF bn < 0
      THEN /\ pc' = Set(pc, c, "rejected")
           /\ result' = Set(result, c, Rejected("EncodingError"))
           /\ events' = Set(events, c, evs)
           /\ UNCHANGED <<nonceBn, calldataDecimal, signed>>
      ELSE /\ pc' = Set(pc, c, "signTransaction")
           /\ result' = Set(result, c, Pending)
           /\ nonceBn' = Set(nonceBn, c, bn)
           /\ calldataDecimal' = Set(calldataDecimal, c, inv.calldata)
           /\ signed' =
                Set(signed, c,
                    Append(signed[c],
                           SignTransactionRequest(inv, inv.calldata, bn, abis)))
           /\ events' = Set(events, c, evs \o <<"compile", "signTransaction">>)

\* With the nonce known: nonceBn, calldataDecimal, then signer.signTransaction
\* is called and awaited.  evs are the call's events so far.
SignStep(c, inv, abis, nonce, evs) ==
  LET bn == toBN(nonce)
      cd == bigNumberishArrayToDecimalStringArray(inv.calldata)
  IN  IF bn < 0
      THEN /\ pc' = Set(pc, c, "rejected")
           /\ result' = Set(result, c, Rejected("EncodingError"))
           /\ events' = Set(events, c, evs)
           /\ UNCHANGED <<nonceBn, calldataDecimal, signed>>
      ELSE IF ~inv.hasCalldata \/ ~AllNumbers(inv.calldata)
      THEN /\ pc' = Set(pc, c, "rejected")
           /\ result' =
                Set(result, c,
                    Rejected(IF inv.hasCalldata THEN "EncodingError"
                             ELSE "TypeError"))
           /\ events' = Set(events, c, evs)
           /\ nonceBn' = Set(nonceBn, c, bn)
           /\ UNCHANGED <<calldataDecimal, signed>>
      ELSE /\ pc' = Set(pc, c, "signTransaction")
           /\ result' = Set(result, c, Pending)
           /\ nonceBn' = Set(nonceBn, c, bn)
           /\ calldataDecimal' = Set(calldataDecimal, c, cd)
           /\ signed' =
                Set(signed, c,
                    Append(signed[c],
                           SignTransactionRequest(inv, cd, bn, abis)))
           /\ events' = Set(events, c, evs \o <<"compile", "signTransaction">>)

\* execute(transactions, abis, transactionsDetail) up to its first await.
ExecuteStart(c, transactions, abis, details) ==
  /\ pc[c] = "idle"
  /\ op' = Set(op, c, "execute")
  /\ args' =
       Set(args, c,
           [NoArgs EXCEPT !.transactions = transactions, !.abis = abis,
                          !.details = details])
  /\ IF RejectsBatch(transactions)
     THEN /\ pc' = Set(pc, c, "rejected")
          /\ result' = Set(result, c, Rejected("UsageError"))
          /\ UNCHANGED <<nonceBn, calldataDecimal, signed, reads, events>>
     ELSE IF HasNonce(details)
     THEN /\ SignStep(c, Invocation(transactions), abis, details.nonce, <<>>)
          /\ UNCHANGED reads
     ELSE /\ pc' = Set(pc, c, "get_nonce")
          /\ result' = Set(result, c, Pending)
          /\ reads' = Set(reads, c, Append(reads[c], GetNonceRequest))
          /\ events' = Set(events, c, <<"callContract">>)
          /\ UNCHANGED <<nonceBn, calldataDecimal, signed>>
  /\ UNCHANGED <<account, gateway, receipts, replies, chain, signature,
                 submits>>

\* The get_nonce call resolves: getNonce returns and execute goes on.
ExecuteNonceResolved(c) ==
  /\ pc[c] = "get_nonce" /\ op[c] = "execute"
  /\ SignStep(c, Invocation(args[c].transactions), args[c].abis,
              GetNonceValue(GetNonceResult),
              Append(events[c], "callContract.ok"))
  /\ replies' = Set(replies, c, Append(replies[c], Reply(GetNonceResult)))
  /\ UNCHANGED <<account, gateway, receipts, chain, op, args, signature, reads,
                 submits>>

\* The failure of get_nonce is caught and execute goes on with nonce 0.
ExecuteNonceFailedDefaulted(c, e) ==
  /\ pc[c] = "get_nonce" /\ op[c] = "execute"
  /\ replies' = Set(replies, c, Append(replies[c], Failure(e)))
  /\ nonceBn' = Set(nonceBn, c, 0)
  /\ pc' = Set(pc, c, "signTransaction")
  /\ signed' =
       Set(signed, c,
           Append(signed[c],
                  SignTransactionRequest(Invocation(args[c].transactions),
                                         <<>>, 0, args[c].abis)))
  /\ events' =
       Set(events, c,
           events[c] \o <<"callContract.err", "compile", "signTransaction">>)
  /\ UNCHANGED <<account, gateway, receipts, chain, op, args, calldataDecimal,
                 signature, reads, submits, result>>

\* The get_nonce call fails: getNonce rejects, and so does execute.
ExecuteNonceFailed(c, e) ==
  /\ pc[c] = "get_nonce" /\ op[c] = "execute"
  /\ pc' = Set(pc, c, "rejected")
  /\ result' = Set(result, c, Rejected(e))
  /\ events' = Set(events, c, Append(events[c], "callContract.err"))
  /\ replies' = Set(replies, c, Append(replies[c], Failure(e)))
  /\ UNCHANGED <<account, gateway, receipts, chain, op, args, locals, reads,
                 signed, submits>>

\* With this request, two invocations bound to one nonce read by get_nonce
\* are out at the same time.
Reuses(c, request) ==
  \E d \in Calls \ {c} :
    /\ op[d] = "execute" /\ pc[d] = "invokeFunction"
    /\ reads[c] # <<>> /\ reads[d] # <<>>
    /\ submits[d][1].calldata[Len(submits[d][1].calldata)]
         = request.calldata[Len(request.calldata)]

\* The destructured contractAddress overwrites the account's address.
ExecuteSignedRebound(c) ==
  /\ pc[c] = "signTransaction" /\ op[c] = "execute"
  /\ address' = Invocation(args[c].transactions).contractAddress
  /\ pc' = Set(pc, c, "rejected")
  /\ UNCHANGED <<signer, gateway, receipts, replies, chain, op, args, locals,
                 reads, signed, submits, events, result>>

\* The signature attached is the one another execute in flight had returned.
ExecuteSignedBorrowed(c) ==
  /\ pc[c] = "signTransaction" /\ op[c] = "execute"
  /\ LET others == {d \in Calls : d # c /\ signed[d] # <<>>}
         from == IF others = {} THEN c ELSE CHOOSE d \in others : TRUE
         sig == Sign(signed[from][Len(signed[from])])
         request ==
           InvokeFunctionRequest(Invocation(args[c].transactions),
                                 calldataDecimal[c], nonceBn[c], sig)
     IN  /\ signature' = Set(signature, c, sig)
         /\ submits' = Set(submits, c, Append(submits[c], request))
         /\ nonceReuse' = (nonceReuse \/ Reuses(c, request))
  /\ pc' = Set(pc, c, "invokeFunction")
  /\ events' =
       Set(events, c, events[c] \o <<"signTransaction.ok", "invokeFunction">>)
  /\ UNCHANGED <<account, gateway, receipts, replies, chainNonce, op, args,
                 nonceBn, calldataDecimal, reads, signed, result>>

\* The signature arrives: the selector is computed and invokeFunction called.
ExecuteSigned(c) ==
  /\ pc[c] = "signTransaction" /\ op[c] = "execute"
  /\ LET sig == Sign(signed[c][Len(signed[c])])
         request ==
           InvokeFunctionRequest(Invocation(args[c].transactions),
                                 calldataDecimal[c], nonceBn[c], sig)
     IN  /\ signature' = Set(signature, c, sig)
         /\ submits' = Set(submits, c, Append(submits[c], request))
         /\ nonceReuse' = (nonceReuse \/ Reuses(c, request))
  /\ pc' = Set(pc, c, "invokeFunction")
  /\ events' =
       Set(events, c, events[c] \o <<"signTransaction.ok", "invokeFunction">>)
  /\ UNCHANGED <<account, gateway, receipts, replies, chainNonce, op, args,
                 nonceBn, calldataDecimal, reads, signed, result>>

\* signer.signTransaction fails: execute rejects.
ExecuteSignFailed(c) ==
  /\ pc[c] = "signTransaction" /\ op[c] = "execute"
  /\ pc' = Set(pc, c, "rejected")
  /\ result' = Set(result, c, Rejected("SigningError"))
  /\ events' = Set(events, c, Append(events[c], "signTransaction.err"))
  /\ UNCHANGED <<account, gateway, receipts, replies, chain, op, args, locals,
                 reads, signed, submits>>

\* invokeFunction resolves: execute returns its response.
ExecuteSubmitted(c) ==
  /\ pc[c] = "invokeFunction" /\ op[c] = "execute"
  /\ pc' = Set(pc, c, "resolved")
  /\ result' = Set(result, c, ResolvedVal(Undefined))
  /\ events' = Set(events, c, Append(events[c], "invokeFunction.ok"))
  /\ chainNonce' =
       Consume(submits[c][1].calldata[Len(submits[c][1].calldata)])
  /\ receipts' =
       Set(receipts, c, Append(receipts[c], Reply(<<"TRANSACTION_RECEIVED">>)))
  /\ UNCHANGED <<account, gateway, replies, nonceReuse, op, args, locals, reads,
                 signed, submits>>

\* A failed invokeFunction is issued again.
ExecuteSubmitRetried(c, e) ==
  /\ pc[c] = "invokeFunction" /\ op[c] = "execute"
  /\ receipts' = Set(receipts, c, Append(receipts[c], Failure(e)))
  /\ submits' = Set(submits, c, Append(submits[c], submits[c][1]))
  /\ events' =
       Set(events, c, events[c] \o <<"invokeFunction.err", "invokeFunction">>)
  /\ UNCHANGED <<account, gateway, replies, chain, pc, op, args, locals, reads,
                 signed, result>>

\* invokeFunction fails: execute rejects.
ExecuteSubmitFailed(c, e) ==
  /\ pc[c] = "invokeFunction" /\ op[c] = "execute"
  /\ pc' = Set(pc, c, "rejected")
  /\ result' = Set(result, c, Rejected(e))
  /\ events' = Set(events, c, Append(events[c], "invokeFunction.err"))
  /\ receipts' = Set(receipts, c, Append(receipts[c], Failure(e)))
  /\ UNCHANGED <<account, gateway, replies, chain, op, args, locals, reads,
                 signed, submits>>

(***************************************************************************)
(* Account.getNonce, called on its own                                     *)
(***************************************************************************)
GetNonceStart(c) ==
  /\ pc[c] = "idle"
  /\ op' = Set(op, c, "getNonce")
  /\ pc' = Set(pc, c, "get_nonce")
  /\ result' = Set(result, c, Pending)
  /\ reads' = Set(reads, c, Append(reads[c], GetNonceRequest))
  /\ events' = Set(events, c, <<"callContract">>)
  /\ UNCHANGED <<account, gateway, receipts, replies, chain, args, locals,
                 signed, submits>>

GetNonceResolved(c) ==
  /\ pc[c] = "get_nonce" /\ op[c] = "getNonce"
  /\ pc' = Set(pc, c, "resolved")
  /\ result' = Set(result, c, ResolvedVal(GetNonceValue(GetNonceResult)))
  /\ events' = Set(events, c, Append(events[c], "callContract.ok"))
  /\ replies' = Set(replies, c, Append(replies[c], Reply(GetNonceResult)))
  /\ UNCHANGED <<account, gateway, receipts, chain, op, args, locals, reads,
                 signed, submits>>

GetNonceFailed(c, e) ==
  /\ pc[c] = "get_nonce" /\ op[c] = "getNonce"
  /\ pc' = Set(pc, c, "rejected")
  /\ result' = Set(result, c, Rejected(e))
  /\ events' = Set(events, c, Append(events[c], "callContract.err"))
  /\ replies' = Set(replies, c, Append(replies[c], Failure(e)))
  /\ UNCHANGED <<account, gateway, receipts, chain, op, args, locals, reads,
                 signed, submits>>

(***************************************************************************)
(* Account.signMessage and Account.hashMessage                             *)
(***************************************************************************)
\* signMessage(typedData): signer.signMessage(typedData, this.address).
SignMessageStart(c, typedData) ==
  /\ pc[c] = "idle"
  /\ op' = Set(op, c, "signMessage")
  /\ args' = Set(args, c, [NoArgs EXCEPT !.typedData = typedData])
  /\ pc' = Set(pc, c, "signMessage")
  /\ result' = Set(result, c, Pending)
  /\ signed' =
       Set(signed, c,
           Append(signed[c],
                  [typedData |-> typedData, accountAddress |-> address]))
  /\ events' = Set(events, c, <<"signMessage">>)
  /\ UNCHANGED <<account, gateway, receipts, replies, chain, locals, reads,
                 submits>>

\* The signer signs the message hash of a well-formed message.
SignMessageResolved(c) ==
  /\ pc[c] = "signMessage" /\ args[c].typedData.valid
  /\ pc' = Set(pc, c, "resolved")
  /\ result' = Set(result, c, ResolvedVal(Undefined))
  /\ signature' = Set(signature, c, Sign(signed[c][1]))
  /\ events' = Set(events, c, Append(events[c], "signMessage.ok"))
  /\ UNCHANGED <<account, gateway, receipts, replies, chain, op, args, nonceBn,
                 calldataDecimal, reads, signed, submits>>

\* The signer fails: on a malformed message always.
SignMessageFailed(c) ==
  /\ pc[c] = "signMessage"
  /\ pc' = Set(pc, c, "rejected")
  /\ result' =
       Set(result, c,
           Rejected(IF args[c].typedData.valid THEN "SigningError"
                    ELSE "TypedDataError"))
  /\ events' = Set(events, c, Append(events[c], "signMessage.err"))
  /\ UNCHANGED <<account, gateway, receipts, replies, chain, op, args, locals,
                 reads, signed, submits>>

\* hashMessage(typedData): getMessageHash(typedData, this.address).
HashMessage(c, typedData) ==
  /\ pc[c] = "idle"
  /\ op' = Set(op, c, "hashMessage")
  /\ args' = Set(args, c, [NoArgs EXCEPT !.typedData = typedData])
  /\ IF typedData.valid
     THEN /\ pc' = Set(pc, c, "resolved")
          /\ result' =
               Set(result, c, ResolvedVal(getMessageHash(typedData, address)))
     ELSE /\ pc' = Set(pc, c, "rejected")
          /\ result' = Set(result, c, Rejected("TypedDataError"))
  /\ UNCHANGED <<account, gateway, receipts, replies, chain, locals, reads,
                 signed, submits, events>>

(***************************************************************************)
(* Account.verifyMessageHash and Account.verifyMessage                     *)
(***************************************************************************)
\* The try block of verifyMessageHash up to its await; an exception thrown
\* while the request is built is caught.
VerifyStep(c, hash, sig) ==
  IF toBN(hash) < 0 \/ ~AllNumbers(sig)
  THEN /\ pc' = Set(pc, c, "resolved")
       /\ result' = Set(result, c, ResolvedBool(FALSE))
       /\ UNCHANGED <<reads, events>>
  ELSE /\ pc' = Set(pc, c, "is_valid_signature")
       /\ result' = Set(result, c, Pending)
       /\ reads' =
            Set(reads, c, Append(reads[c], IsValidSignatureRequest(hash, sig)))
       /\ events' = Set(events, c, Append(events[c], "callContract"))

VerifyMessageHashStart(c, hash, sig) ==
  /\ pc[c] = "idle"
  /\ op' = Set(op, c, "verifyMessageHash")
  /\ args' = Set(args, c, [NoArgs EXCEPT !.hash = hash, !.signature = sig])
  /\ VerifyStep(c, hash, sig)
  /\ UNCHANGED <<account, gateway, receipts, replies, chain, locals, signed,
                 submits>>

\* The hashing sits inside the try block too: its failure returns false.
VerifyMessageStartCaught(c, typedData, sig) ==
  /\ pc[c] = "idle"
  /\ op' = Set(op, c, "verifyMessage")
  /\ args' =
       Set(args, c, [NoArgs EXCEPT !.typedData = typedData, !.signature = sig])
  /\ IF typedData.valid
     THEN VerifyStep(c, getMessageHash(typedData, address), sig)
     ELSE /\ pc' = Set(pc, c, "resolved")
          /\ result' = Set(result, c, ResolvedBool(FALSE))
          /\ UNCHANGED <<reads, events>>
  /\ UNCHANGED <<account, gateway, receipts, replies, chain, locals, signed,
                 submits>>

\* verifyMessage(typedData, signature): hashMessage, then verifyMessageHash.
VerifyMessageStart(c, typedData, sig) ==
  /\ pc[c] = "idle"
  /\ op' = Set(op, c, "verifyMessage")
  /\ args' =
       Set(args, c, [NoArgs EXCEPT !.typedData = typedData, !.signature = sig])
  /\ IF typedData.valid
     THEN VerifyStep(c, getMessageHash(typedData, address), sig)
     ELSE /\ pc' = Set(pc, c, "rejected")
          /\ result' = Set(result, c, Rejected("TypedDataError"))
          /\ UNCHANGED <<reads, events>>
  /\ UNCHANGED <<account, gateway, receipts, replies, chain, locals, signed,
                 submits>>

\* The is_valid_signature call resolves: return true.
VerifyResolved(c) ==
  /\ pc[c] = "is_valid_signature"
  /\ pc' = Set(pc, c, "resolved")
  /\ result' = Set(result, c, ResolvedBool(TRUE))
  /\ events' = Set(events, c, Append(events[c], "callContract.ok"))
  /\ replies' = Set(replies, c, Append(replies[c], Reply(<<>>)))
  /\ UNCHANGED <<account, gateway, receipts, chain, op, args, locals, reads,
                 signed, submits>>

\* The failure of the is_valid_signature call is not caught.
VerifyFailedRethrown(c, e) ==
  /\ pc[c] = "is_valid_signature"
  /\ replies' = Set(replies, c, Append(replies[c], Failure(e)))
  /\ pc' = Set(pc, c, "rejected")
  /\ result' = Set(result, c, Rejected(e))
  /\ events' = Set(events, c, Append(events[c], "callContract.err"))
  /\ UNCHANGED <<account, gateway, receipts, chain, op, args, locals, reads,
                 signed, submits>>

\* The is_valid_signature call fails: the catch block returns false.
VerifyFailed(c, e) ==
  /\ pc[c] = "is_valid_signature"
  /\ pc' = Set(pc, c, "resolved")
  /\ result' = Set(result, c, ResolvedBool(FALSE))
  /\ events' = Set(events, c, Append(events[c], "callContract.err"))
  /\ replies' = Set(replies, c, Append(replies[c], Failure(e)))
  /\ UNCHANGED <<account, gateway, receipts, chain, op, args, locals, reads,
                 signed, submits>>

\* The caller has its settled promise; the slot is free for another call.
Return(c) ==
  /\ pc[c] \in {"resolved", "rejected"}
  /\ pc' = Set(pc, c, "idle")
  /\ op' = Set(op, c, "none")
  /\ args' = Set(args, c, NoArgs)
  /\ nonceBn' = Set(nonceBn, c, -1)
  /\ calldataDecimal' = Set(calldataDecimal, c, <<>>)
  /\ signature' = Set(signature, c, <<>>)
  /\ reads' = Set(reads, c, <<>>)
  /\ signed' = Set(signed, c, <<>>)
  /\ submits' = Set(submits, c, <<>>)
  /\ events' = Set(events, c, <<>>)
  /\ result' = Set(result, c, NoResult)
  /\ replies' = Set(replies, c, <<>>)
  /\ receipts' = Set(receipts, c, <<>>)
  /\ UNCHANGED <<account, gateway, chain>>

Next ==
  \E c \in Calls :
    \/ \E x \in ExecuteArgs : ExecuteStart(c, x[1], x[2], x[3])
    \/ ExecuteNonceResolved(c)
    \/ \E e \in CallErrors : ExecuteNonceFailed(c, e)
    \/ ExecuteSigned(c)
    \/ ExecuteSignFailed(c)
    \/ ExecuteSubmitted(c)
    \/ \E e \in CallErrors : ExecuteSubmitFailed(c, e)
    \/ GetNonceStart(c)
    \/ GetNonceResolved(c)
    \/ \E e \in CallErrors : GetNonceFailed(c, e)
    \/ \E td \in TypedDatas : SignMessageStart(c, td)
    \/ SignMessageResolved(c)
    \/ SignMessageFailed(c)
    \/ \E td \in TypedDatas : HashMessage(c, td)
    \/ \E h \in HashArgs, s \in SignatureArgs : VerifyMessageHashStart(c, h, s)
    \/ \E td \in TypedDatas, s \in SignatureArgs : VerifyMessageStart(c, td, s)
    \/ VerifyResolved(c)
    \/ \E e \in CallErrors : VerifyFailed(c, e)
    \/ Return(c)

Spec == Init /\ [][Next]_vars

(***************************************************************************)
(* index.ts: each function builds one promise around one axios request.    *)
(***************************************************************************)
FEEDER_GATEWAY_URL == "feeder_gateway"
GATEWAY_URL == "gateway"

\* `${n}` of a number: its decimal digits.
Interpolate(n) == Digits(n, 10)

\* axios.get(url) and axios.post(url, body).
Get(base, path, query) ==
  [method |-> "GET", base |-> base, path |-> path, query |-> query,
   body |-> ""]
Post(base, path, query, body) ==
  [method |-> "POST", base |-> base, path |-> path, query |-> query,
   body |-> body]

\* new Promise(...): pending until resolve or reject is first called.
NewPromise == [NoPromise EXCEPT !.state = "pending"]
Resolve(p, v) ==
  IF p.state = "pending" THEN [p EXCEPT !.state = "fulfilled", !.value = v]
  ELSE p
Reject(p, e) ==
  IF p.state = "pending" THEN [p EXCEPT !.state = "rejected", !.reason = e]
  ELSE p

\* The executor of the promise: the request is handed to axios.
Issue(g, call, request) ==
  /\ gw[g].fn = "none"
  /\ gw' = Set(gw, g, call)
  /\ http' = Set(http, g, Append(http[g], request))
  /\ promise' = Set(promise, g, NewPromise)
  /\ UNCHANGED <<account, chain, calls, response, settlements>>

getContractAddresses(g) ==
  Issue(g, [NoGatewayCall EXCEPT !.fn = "getContractAddresses"],
        Get(FEEDER_GATEWAY_URL, "get_contract_addresses", <<>>))

callContract(g, invokeTx, blockId) ==
  Issue(g, [NoGatewayCall EXCEPT !.fn = "callContract", !.body = invokeTx,
                                 !.blockId = blockId],
        Post(FEEDER_GATEWAY_URL, "call_contract",
             <<<<"blockId", Interpolate(blockId)>>>>, invokeTx))

getBlock(g, blockId) ==
  Issue(g, [NoGatewayCall EXCEPT !.fn = "getBlock", !.blockId = blockId],
        Get(FEEDER_GATEWAY_URL, "get_block",
            <<<<"blockId", Interpolate(blockId)>>>>))

getCode(g, contractAddress, blockId) ==
  Issue(g, [NoGatewayCall EXCEPT !.fn = "getCode",
                                 !.contractAddress = contractAddress,
                                 !.blockId = blockId],
        Get(FEEDER_GATEWAY_URL, "get_code",
            <<<<"contractAddress", contractAddress>>,
              <<"blockId", Interpolate(blockId)>>>>))

getStorageAt(g, contractAddress, key, blockId) ==
  Issue(g, [NoGatewayCall EXCEPT !.fn = "getStorageAt",
                                 !.contractAddress = contractAddress,
                                 !.key = key, !.blockId = blockId],
        Get(FEEDER_GATEWAY_URL, "get_storage_at",
            <<<<"contractAddress", contractAddress>>,
              <<"key", Interpolate(key)>>,
              <<"blockId", Interpolate(blockId)>>>>))

getTransactionStatus(g, txId) ==
  Issue(g, [NoGatewayCall EXCEPT !.fn = "getTransactionStatus",
                                 !.txId = txId],
        Get(FEEDER_GATEWAY_URL, "get_transaction_status",
            <<<<"transactionId", Interpolate(txId)>>>>))

getTransaction(g, txId) ==
  Issue(g, [NoGatewayCall EXCEPT !.fn = "getTransaction", !.txId = txId],
        Get(FEEDER_GATEWAY_URL, "get_transaction",
            <<<<"transactionId", Interpolate(txId)>>>>))

addTransaction(g, tx) ==
  Issue(g, [NoGatewayCall EXCEPT !.fn = "addTransaction", !.body = tx],
        Post(GATEWAY_URL, "add_transaction", <<>>, tx))

InFlight(g) == http[g] # <<>> /\ ~response[g].arrived

\* .then((resp) => { resolve(resp.data); })
RequestResolved(g, resp) ==
  /\ InFlight(g)
  /\ response' =
       Set(response, g,
           [NoResponse EXCEPT !.arrived = TRUE, !.ok = TRUE,
                              !.status = resp.status, !.data = resp.data])
  /\ promise' = Set(promise, g, Resolve(promise[g], resp.data))
  /\ settlements' = Set(settlements, g, settlements[g] + 1)
  /\ UNCHANGED <<account, chain, calls, gw, http>>

\* On a failure the request is handed to axios once more.
RequestRetried(g, e) ==
  /\ InFlight(g)
  /\ http' = Set(http, g, Append(http[g], http[g][1]))
  /\ UNCHANGED <<account, chain, calls, gw, response, promise, settlements>>

\* .catch(reject)
RequestFailed(g, e) ==
  /\ InFlight(g)
  /\ response' =
       Set(response, g, [NoResponse EXCEPT !.arrived = TRUE, !.error = e])
  /\ promise' = Set(promise, g, Reject(promise[g], e))
  /\ settlements' = Set(settlements, g, settlements[g] + 1)
  /\ UNCHANGED <<account, chain, calls, gw, http>>

GatewayNext ==
  \E g \in GatewayCalls :
    \/ getContractAddresses(g)
    \/ \E tx \in Bodies, b \in BlockIds : callContract(g, tx, b)
    \/ \E b \in BlockIds : getBlock(g, b)
    \/ \E a \in ContractAddresses, b \in BlockIds : getCode(g, a, b)
    \/ \E a \in ContractAddresses, k \in StorageKeys, b \in BlockIds :
         getStorageAt(g, a, k, b)
    \/ \E t \in TxIds : getTransactionStatus(g, t)
    \/ \E t \in TxIds : getTransaction(g, t)
    \/ \E tx \in Bodies : addTransaction(g, tx)
    \/ \E resp \in Responses : RequestResolved(g, resp)
    \/ \E e \in HttpErrors : RequestFailed(g, e)

GatewaySpec == Init /\ [][GatewayNext]_vars

(***************************************************************************)
(* Properties                                                              *)
(***************************************************************************)
\* The invocation a call of execute was given (its first, for an array).
Given(c) ==
  IF args[c].transactions.items = <<>> THEN NoInvocation
  ELSE args[c].transactions.items[1]
GivenCalldata(c) == IF Given(c).hasCalldata THEN Given(c).calldata ELSE <<>>
Override(c) == args[c].details.nonce
Last(seq) == seq[Len(seq)]
IsExecute(c) == op[c] = "execute"
Submitted(c) == IsExecute(c) /\ submits[c] # <<>>

\* C1: execute called with an array of more than one invocation is rejected
\* with the usage error, and at that point the call has issued no
\* callContract, no signer request and no invokeFunction, whatever the abis
\* and details arguments are.
BatchRejectedBeforeAnyWork ==
  \A c \in Calls :
    (IsExecute(c) /\ args[c].transactions.isArray
       /\ Len(args[c].transactions.items) > 1)
      => /\ pc[c] = "rejected"
         /\ result[c] = Rejected("UsageError")
         /\ reads[c] = <<>> /\ signed[c] = <<>> /\ submits[c] = <<>>
         /\ events[c] = <<>>

\* A two-element array, given with abis and a nonce override, was rejected.
BatchRejectedWitness ==
  \E c \in Calls :
    /\ IsExecute(c)
    /\ args[c].transactions = Array(<<Transfer, MintNoCalldata>>)
    /\ args[c].abis # <<>> /\ HasNonce(args[c].details)
    /\ pc[c] = "rejected" /\ result[c].error = "UsageError"

\* The runs of external operations one execute call may show: the get_nonce
\* call (when made) settled, then the compilation, then the signing settled,
\* then the submission; a failure ends the run.
ExecuteRun(withNonceCall) ==
  (IF withNonceCall THEN <<"callContract", "callContract.ok">> ELSE <<>>)
    \o <<"compile", "signTransaction", "signTransaction.ok",
         "invokeFunction", "invokeFunction.ok">>
Settles == {"callContract.ok", "signTransaction.ok", "invokeFunction.ok"}
FailureOf(e) ==
  CASE e = "callContract.ok" -> "callContract.err"
    [] e = "signTransaction.ok" -> "signTransaction.err"
    [] OTHER -> "invokeFunction.err"
RunPrefix(evs, run) ==
  \E k \in 0..Len(run) :
    \/ evs = SubSeq(run, 1, k)
    \/ /\ k >= 1 /\ run[k] \in Settles
       /\ evs = Append(SubSeq(run, 1, k - 1), FailureOf(run[k]))
\* The operations of a run that were issued and have not settled.
InProgress(evs) ==
  {i \in DOMAIN evs :
     /\ evs[i] \in {"callContract", "signTransaction", "invokeFunction"}
     /\ \A j \in DOMAIN evs : j > i => evs[j] \notin
          {evs[i] \o ".ok", evs[i] \o ".err"}}

\* C2: within one execute call the steps run one after the other: the
\* get_nonce call has settled before the calldata is compiled and the
\* signing starts, the signing has succeeded before invokeFunction is
\* issued, invokeFunction is the last step, and at most one of them is in
\* progress at any time.
ExecuteStepsSequential ==
  \A c \in Calls :
    IsExecute(c) =>
      /\ RunPrefix(events[c], ExecuteRun(reads[c] # <<>>))
      /\ Cardinality(InProgress(events[c])) <= 1

\* An execute call that read its nonce, signed and submitted, has returned.
ExecuteStepsWitness ==
  \E c \in Calls :
    /\ IsExecute(c) /\ pc[c] = "resolved"
    /\ events[c] = ExecuteRun(TRUE)

\* C3: every execute with a single invocation that reaches its submission
\* submits to the account's own address, entrypoint "execute", the calldata
\* [inner contract address, selector of the inner entrypoint, number of inner
\* calldata elements, the inner calldata elements in their order, nonce].
SubmissionLayout ==
  \A c \in Calls :
    Submitted(c) =>
      LET request == submits[c][1]
          cd == request.calldata
          n == Len(GivenCalldata(c))
      IN  /\ Len(submits[c]) = 1
          /\ request.contractAddress = address
          /\ request.entrypoint = "execute"
          /\ Len(cd) = n + 4
          /\ cd[1] = Given(c).contractAddress
          /\ cd[2] = getSelectorFromName(Given(c).entrypoint)
          /\ toBN(cd[3]) = n
          /\ \A i \in 1..n : toBN(cd[3 + i]) = toBN(GivenCalldata(c)[i])
          /\ toBN(cd[n + 4]) = signed[c][1].nonce
          /\ toBN(cd[n + 4]) = nonceBn[c]

\* An execute of an invocation with two calldata elements has succeeded.
SubmissionLayoutWitness ==
  \E c \in Calls :
    /\ Submitted(c) /\ pc[c] = "resolved"
    /\ Len(GivenCalldata(c)) = 2

\* The scenario of C4: nonce override 5, contract "0x1", entrypoint
\* "transfer", calldata ["0x2", 100].
Scenario(c) == IsExecute(c) /\ Given(c) = Transfer /\ Override(c) = Num(5)

Single(c) ==
  ~args[c].transactions.isArray \/ Len(args[c].transactions.items) = 1
OverrideGiven(c) == Override(c) # Undefined

\* C5: an execute given details.nonce (zero included) issues no get_nonce
\* call and signs and submits the value of the override; an execute given
\* none issues exactly one callContract, to the account's own address with
\* entrypoint get_nonce, and signs and submits the value of the first element
\* of its result.
NonceResolution ==
  \A c \in Calls :
    (IsExecute(c) /\ Single(c)) =>
      IF OverrideGiven(c)
      THEN /\ reads[c] = <<>> /\ replies[c] = <<>>
           /\ signed[c] # <<>> => signed[c][1].nonce = toBN(Override(c))
           /\ submits[c] # <<>> =>
                toBN(Last(submits[c][1].calldata)) = toBN(Override(c))
      ELSE /\ reads[c] =
                <<[contractAddress |-> address, entrypoint |-> "get_nonce",
                   calldata |-> <<>>]>>
           /\ signed[c] # <<>> =>
                /\ replies[c] # <<>> /\ replies[c][1].ok
                /\ signed[c][1].nonce = toBN(replies[c][1].result[1])
           /\ submits[c] # <<>> =>
                toBN(Last(submits[c][1].calldata))
                  = toBN(replies[c][1].result[1])

\* One execute with the override 0 and one without an override have both
\* submitted and returned.
NonceResolutionWitness ==
  \E c \in Calls, d \in Calls :
    /\ Submitted(c) /\ pc[c] = "resolved" /\ Override(c) = Num(0)
    /\ Last(submits[c][1].calldata) = Dec(<<0>>)
    /\ Submitted(d) /\ pc[d] = "resolved" /\ ~OverrideGiven(d)
    /\ Len(reads[d]) = 1

\* C6: when the get_nonce call of an execute fails, execute rejects with
\* that same error, nothing was signed and invokeFunction was not called.
NonceFailurePropagates ==
  \A c \in Calls :
    (IsExecute(c) /\ replies[c] # <<>> /\ ~replies[c][1].ok) =>
      /\ pc[c] = "rejected"
      /\ result[c] = Rejected(replies[c][1].error)
      /\ signed[c] = <<>> /\ submits[c] = <<>>
      /\ Last(events[c]) = "callContract.err"

\* An execute whose get_nonce call failed with a contract read error.
NonceFailureWitness ==
  \E c \in Calls :
    /\ IsExecute(c) /\ replies[c] = <<Failure("ContractReadError")>>
    /\ pc[c] = "rejected"

CallSucceeded(c) == replies[c] # <<>> /\ replies[c][1].ok

VerifyMessageNeverRejects ==
  \A c \in Calls : op[c] = "verifyMessage" => pc[c] # "rejected"

\* C8, amended: verifyMessage turns a failure of the delegated
\* is_valid_signature call into false; a failure to hash the typed data
\* rejects the call, before any callContract is issued.
VerifyMessageOutcome ==
  \A c \in Calls :
    op[c] = "verifyMessage" =>
      IF args[c].typedData.valid
      THEN /\ pc[c] \in {"is_valid_signature", "resolved"}
           /\ pc[c] = "resolved" => (result[c].bool <=> CallSucceeded(c))
      ELSE /\ pc[c] = "rejected"
           /\ result[c] = Rejected("TypedDataError")
           /\ reads[c] = <<>>

\* A verifyMessage whose delegated call failed has returned false.
VerifyMessageWitness ==
  \E c \in Calls :
    /\ op[c] = "verifyMessage" /\ pc[c] = "resolved" /\ ~result[c].bool
    /\ replies[c] # <<>> /\ ~replies[c][1].ok

\* C9: two overlapping executes with distinct nonce overrides submit
\* distinct nonces, each its own override; nothing serializes the calls (the
\* witness: two executes without overrides submit one and the same nonce).
DistinctOverridesDistinctNonces ==
  \A c \in Calls, d \in Calls :
    (/\ c # d /\ Submitted(c) /\ Submitted(d)
     /\ OverrideGiven(c) /\ OverrideGiven(d)
     /\ toBN(Override(c)) # toBN(Override(d))) =>
      /\ toBN(Last(submits[c][1].calldata)) = toBN(Override(c))
      /\ toBN(Last(submits[d][1].calldata)) = toBN(Override(d))
      /\ Last(submits[c][1].calldata) # Last(submits[d][1].calldata)

\* Two executes without overrides have submitted the same read nonce while
\* both were in flight, and two executes with distinct overrides are in
\* flight with their submissions out.
OverlappingExecutesWitness ==
  /\ nonceReuse
  /\ \E c \in Calls, d \in Calls :
       /\ c # d /\ Submitted(c) /\ Submitted(d)
       /\ pc[c] = "invokeFunction" /\ pc[d] = "invokeFunction"
       /\ OverrideGiven(c) /\ OverrideGiven(d)
       /\ toBN(Override(c)) # toBN(Override(d))

\* C10: an execute of an invocation without calldata does not fail for the
\* lack of it, and what it submits is [contractAddress, selector, "0", nonce].
OmittedCalldataIsEmpty ==
  \A c \in Calls :
    (IsExecute(c) /\ Single(c) /\ ~Given(c).hasCalldata) =>
      /\ result[c].error \in
           {"", "NetworkError", "ContractReadError", "SigningError",
            "EncodingError"}
      /\ result[c].error = "EncodingError" =>
           (OverrideGiven(c) /\ toBN(Override(c)) < 0)
      /\ submits[c] # <<>> =>
           submits[c][1].calldata =
             <<Given(c).contractAddress,
               getSelectorFromName(Given(c).entrypoint), Dec(<<0>>),
               BNToString(nonceBn[c])>>

\* An execute of an invocation without calldata, nonce 5, has returned.
OmittedCalldataWitness ==
  \E c \in Calls :
    /\ Submitted(c) /\ pc[c] = "resolved" /\ Given(c) = MintNoCalldata
    /\ submits[c][1].calldata =
         <<Hex(<<3>>), getSelectorFromName("mint"), Dec(<<0>>), Dec(<<5>>)>>

Count(evs, e) == Cardinality({i \in DOMAIN evs : evs[i] = e})

\* C11: nothing is retried: one execute issues at most one get_nonce
\* callContract and at most one invokeFunction, and rejects with the error
\* its invokeFunction failed with; one verifyMessageHash issues at most one
\* callContract.
NoRetries ==
  \A c \in Calls :
    /\ IsExecute(c) =>
         /\ Len(reads[c]) <= 1 /\ Count(events[c], "callContract") <= 1
         /\ Len(submits[c]) <= 1 /\ Count(events[c], "invokeFunction") <= 1
         /\ Len(replies[c]) <= 1 /\ Len(receipts[c]) <= 1
         /\ (receipts[c] # <<>> /\ ~receipts[c][1].ok) =>
              /\ pc[c] = "rejected"
              /\ result[c] = Rejected(receipts[c][1].error)
    /\ op[c] = "verifyMessageHash" =>
         /\ Len(reads[c]) <= 1 /\ Count(events[c], "callContract") <= 1
         /\ submits[c] = <<>>

\* An execute that read its nonce was rejected with the error of its one
\* invokeFunction, while a verifyMessageHash whose one call failed returned.
NoRetriesWitness ==
  \E c \in Calls, d \in Calls :
    /\ IsExecute(c) /\ pc[c] = "rejected"
    /\ receipts[c] = <<Failure("ContractReadError")>>
    /\ Len(reads[c]) = 1 /\ Len(submits[c]) = 1
    /\ op[d] = "verifyMessageHash" /\ pc[d] = "resolved"
    /\ Len(reads[d]) = 1 /\ ~replies[d][1].ok

\* What the signer was handed, without the abis.
SignerInputs(c) ==
  [transactions |-> signed[c][1].transactions,
   walletAddress |-> signed[c][1].walletAddress,
   nonce |-> signed[c][1].nonce]

\* C12: two executes on the account with the same invocation and the same
\* nonce override hand the signer the same invocation, wallet address and
\* nonce and submit the same outer calldata, whatever ran before or between.
ExecuteDeterministic ==
  \A c \in Calls, d \in Calls :
    (/\ IsExecute(c) /\ IsExecute(d) /\ Single(c) /\ Single(d)
     /\ Given(c) = Given(d)
     /\ OverrideGiven(c) /\ Override(c) = Override(d)) =>
      /\ (signed[c] # <<>> /\ signed[d] # <<>>) =>
           SignerInputs(c) = SignerInputs(d)
      /\ (submits[c] # <<>> /\ submits[d] # <<>>) =>
           /\ submits[c][1].calldata = submits[d][1].calldata
           /\ submits[c][1].contractAddress = submits[d][1].contractAddress
           /\ submits[c][1].entrypoint = submits[d][1].entrypoint

\* The same invocation with the same override was executed twice, once bare
\* and once in an array, the first having returned and moved the account's
\* nonce before the second was submitted.
ExecuteDeterministicWitness ==
  \E c \in Calls, d \in Calls :
    /\ args[c].transactions = Bare(Transfer)
    /\ args[d].transactions = Array(<<Transfer>>)
    /\ IsExecute(c) /\ IsExecute(d)
    /\ Override(c) = Num(0) /\ Override(d) = Num(0)
    /\ pc[c] = "resolved" /\ chainNonce = 1
    /\ pc[d] = "invokeFunction"

NetworkEvents ==
  {"callContract", "callContract.ok", "callContract.err", "invokeFunction",
   "invokeFunction.ok", "invokeFunction.err"}
Offline(c) ==
  /\ reads[c] = <<>> /\ replies[c] = <<>>
  /\ submits[c] = <<>> /\ receipts[c] = <<>>
  /\ \A i \in DOMAIN events[c] : events[c][i] \notin NetworkEvents

\* C13: hashMessage and signMessage issue no callContract and no
\* invokeFunction, and no step of any operation, successful or failed,
\* changes the account's address or its signer.
AccountFrame ==
  /\ [](\A c \in Calls : op[c] \in {"hashMessage", "signMessage"} => Offline(c))
  /\ [][address' = address /\ signer' = signer]_vars

\* After an execute that moved the account's nonce, a signMessage has
\* returned and a hashMessage has failed.
AccountFrameWitness ==
  \E c \in Calls, d \in Calls :
    /\ chainNonce = 1
    /\ op[c] = "signMessage" /\ pc[c] = "resolved" /\ signature[c] # <<>>
    /\ op[d] = "hashMessage" /\ pc[d] = "rejected"

\* C14: an execute whose calldata holds a value that cannot be encoded
\* signs nothing and never calls invokeFunction; it rejects with the encoding
\* error, at once when a nonce override is given, and otherwise after its
\* get_nonce call, the only external call it has made.
UnencodableCalldataAborts ==
  \A c \in Calls :
    (IsExecute(c) /\ Single(c) /\ ~AllNumbers(GivenCalldata(c))) =>
      /\ signed[c] = <<>> /\ submits[c] = <<>> /\ receipts[c] = <<>>
      /\ \A i \in DOMAIN events[c] :
           events[c][i] \in
             {"callContract", "callContract.ok", "callContract.err"}
      /\ IF OverrideGiven(c)
         THEN /\ reads[c] = <<>>
              /\ pc[c] = "rejected"
              /\ result[c] = Rejected("EncodingError")
         ELSE /\ Len(reads[c]) = 1 /\ reads[c][1].entrypoint = "get_nonce"
              /\ pc[c] \in {"get_nonce", "rejected"}
              /\ (pc[c] = "rejected" /\ CallSucceeded(c)) =>
                   result[c] = Rejected("EncodingError")

\* An execute without an override read its nonce and was then rejected for
\* its calldata.
UnencodableCalldataWitness ==
  \E c \in Calls :
    /\ IsExecute(c) /\ Given(c) = Malformed /\ ~OverrideGiven(c)
    /\ CallSucceeded(c) /\ pc[c] = "rejected"
    /\ result[c].error = "EncodingError"

IsVerify(c) == op[c] \in {"verifyMessageHash", "verifyMessage"}
Settled(c) == pc[c] \in {"resolved", "rejected"}
\* The hash a verify operation has to send.
HashOf(c) ==
  IF op[c] = "verifyMessage"
  THEN Hex(<<args[c].typedData.tag>> \o address.d)
  ELSE args[c].hash
IsValidSignatureCall(c) ==
  /\ Len(reads[c]) = 1
  /\ reads[c][1].contractAddress = address
  /\ reads[c][1].entrypoint = "is_valid_signature"
  /\ LET cd == reads[c][1].calldata
         sig == args[c].signature
     IN  /\ Len(cd) = Len(sig) + 2
         /\ toBN(cd[1]) = toBN(HashOf(c))
         /\ toBN(cd[2]) = Len(sig)
         /\ \A i \in DOMAIN sig : toBN(cd[2 + i]) = toBN(sig[i])

\* C15 as stated: every verifyMessageHash and verifyMessage that has settled
\* has issued exactly one callContract, the is_valid_signature call.
VerifyAlwaysCalls ==
  \A c \in Calls :
    (IsVerify(c) /\ Settled(c)) => /\ IsValidSignatureCall(c)
                                   /\ submits[c] = <<>>

\* C15, amended: the verify operations never call invokeFunction and issue
\* at most one callContract; when the hash and the signature elements can be
\* encoded (and, for verifyMessage, the typed data can be hashed) they issue
\* exactly the is_valid_signature call to the account's own address with
\* calldata [hash, number of signature elements, signature elements], and
\* otherwise none.
VerifyCallShape ==
  \A c \in Calls :
    IsVerify(c) =>
      /\ submits[c] = <<>> /\ receipts[c] = <<>>
      /\ IF /\ op[c] = "verifyMessage" => args[c].typedData.valid
            /\ toBN(HashOf(c)) >= 0
            /\ AllNumbers(args[c].signature)
         THEN IsValidSignatureCall(c)
         ELSE reads[c] = <<>> /\ Settled(c)

\* A verifyMessage of a well-formed message with a two-element signature has
\* its call out.
VerifyCallShapeWitness ==
  \E c \in Calls :
    /\ op[c] = "verifyMessage" /\ pc[c] = "is_valid_signature"
    /\ Len(args[c].signature) = 2
    /\ reads[c][1].calldata =
         <<Dec(Digits(ParseDigits(<<4>> \o address.d, 16), 10)), Dec(<<2>>),
           Dec(<<2>>), Dec(<<1, 0, 0>>)>>

\* C16: in an execute that has submitted, the submission carries what was
\* signed: its calldata ends with the nonce the signer was given and embeds
\* the signer's inner contract address, entrypoint (as its selector) and
\* calldata elements, it is sent to the wallet address the signer was given,
\* and its signature is the one the signer returned for this call's request.
SignedIsSubmitted ==
  \A c \in Calls :
    Submitted(c) =>
      LET request == signed[c][1]
          inner == request.transactions[1]
          sub == submits[c][1]
          cd == sub.calldata
      IN  /\ Len(signed[c]) = 1
          /\ Len(cd) = Len(inner.calldata) + 4
          /\ toBN(cd[Len(cd)]) = request.nonce
          /\ cd[1] = inner.contractAddress
          /\ cd[2] = getSelectorFromName(inner.entrypoint)
          /\ toBN(cd[3]) = Len(inner.calldata)
          /\ SubSeq(cd, 4, Len(cd) - 1) = inner.calldata
          /\ sub.contractAddress = request.walletAddress
          /\ sub.signature = <<[signedBy |-> signer, over |-> request]>>
          /\ signature[c] = sub.signature

\* Two executes that had different requests signed have both submitted.
SignedIsSubmittedWitness ==
  \E c \in Calls, d \in Calls :
    /\ Submitted(c) /\ Submitted(d)
    /\ signed[c][1] # signed[d][1]
    /\ submits[c][1].signature # submits[d][1].signature

\* C17: execute rejects with the usage error exactly when it is given an
\* array that does not hold one invocation, the empty array included, and
\* then before any callContract, signing or invokeFunction; and an execute
\* given [inv] hands the signer the same inputs and submits the same
\* request as an execute given inv with the same abis and the same nonce.
OneInvocationPerExecute ==
  /\ \A c \in Calls :
       IsExecute(c) =>
         /\ result[c] = Rejected("UsageError") <=>
              (args[c].transactions.isArray
                 /\ Len(args[c].transactions.items) # 1)
         /\ args[c].transactions.items = <<>> =>
              /\ pc[c] = "rejected"
              /\ reads[c] = <<>> /\ signed[c] = <<>> /\ submits[c] = <<>>
              /\ events[c] = <<>>
  /\ \A c \in Calls, d \in Calls :
       (/\ IsExecute(c) /\ IsExecute(d)
        /\ args[c].transactions.isArray /\ ~args[d].transactions.isArray
        /\ args[c].transactions.items = args[d].transactions.items
        /\ args[c].abis = args[d].abis
        /\ nonceBn[c] = nonceBn[d]) =>
         /\ (signed[c] # <<>> /\ signed[d] # <<>>) => signed[c] = signed[d]
         /\ (submits[c] # <<>> /\ submits[d] # <<>>) => submits[c] = submits[d]

\* An execute of [inv] and one of inv, with the same nonce, have both
\* submitted.
OneInvocationWitness ==
  \E c \in Calls, d \in Calls :
    /\ Submitted(c) /\ Submitted(d)
    /\ args[c].transactions.isArray /\ ~args[d].transactions.isArray
    /\ args[c].transactions.items = args[d].transactions.items
    /\ args[c].abis = args[d].abis
    /\ nonceBn[c] = nonceBn[d]
    /\ submits[c] = submits[d]

\* C18: a call of a gateway function of index.ts has handed axios exactly
\* one request; its promise is pending until that request settles, then
\* fulfilled with the response's data if the request succeeded and rejected
\* with the request's error if it failed; resolve or reject is called once.
GatewayOneRequestOneSettlement ==
  \A g \in GatewayCalls :
    IF gw[g].fn = "none"
    THEN http[g] = <<>> /\ settlements[g] = 0 /\ promise[g].state = "none"
    ELSE /\ Len(http[g]) = 1
         /\ IF ~response[g].arrived
            THEN /\ settlements[g] = 0
                 /\ promise[g].state = "pending"
            ELSE /\ settlements[g] = 1
                 /\ IF response[g].ok
                    THEN /\ promise[g].state = "fulfilled"
                         /\ promise[g].value = response[g].data
                         /\ promise[g].reason = NoValue
                    ELSE /\ promise[g].state = "rejected"
                         /\ promise[g].reason = response[g].error
                         /\ promise[g].value = NoValue

\* An addTransaction was fulfilled with its response's data while a
\* getStorageAt was rejected with its request's error.
GatewayWitness ==
  \E g \in GatewayCalls, h \in GatewayCalls :
    /\ gw[g].fn = "addTransaction" /\ promise[g].state = "fulfilled"
    /\ promise[g].value = "[1]" /\ http[g][1].method = "POST"
    /\ gw[h].fn = "getStorageAt" /\ promise[h].state = "rejected"
    /\ promise[h].reason = "Network Error"

====
